---- MODULE Spec2Model ----
(***************************************************************************)
(* figoplex: the mutual-fund return analytics (mutual_fund_analyzer.py)    *)
(* and the goal planning calculation (goal_planning.py).                   *)
(*                                                                         *)
(* Every function is modelled as a small state machine: Init draws the     *)
(* inputs of one call (the provider's response, the anchor dates, the form *)
(* texts), the actions are the steps of the function's body, and the call  *)
(* ends in pc = "done" (it returned) or pc = "raised" (an exception left   *)
(* the function).                                                          *)
(***************************************************************************)
EXTENDS Integers, Sequences, FiniteSets, TLC

VARIABLES
    fn,                 \* the function being called
    pc,                 \* "call", "loop", "done" or "raised"
    exc,                \* the exception that left the function, or "-"
    scheme_data,        \* what get_mf_data_direct(mf_code) returned
    dates_chronological,\* the anchor dates argument
    nav_data,           \* the sorted DataFrame, a sequence of rows
    i,                  \* the loop variable
    returns,            \* the dict under construction (returns / cagr_dict)
    mf_code,            \* get_scheme_name: its argument
    scheme_details,     \* get_scheme_name: the provider's outcome
    result,             \* get_scheme_name: the returned value
    texts,              \* goal form: the four text inputs
    submitted,          \* goal form: the submit button
    goal_value_today,
    inflation_rate,
    years_to_goal,
    rate_inv_return,
    future_goal_value,
    annual_sip,
    df                  \* the "CORPUS VALUE" column; "YEAR" is the index

analyticsVars == <<scheme_data, dates_chronological, nav_data, returns,
                   mf_code, scheme_details, result>>

goalVars == <<texts, submitted, goal_value_today, inflation_rate, years_to_goal,
              rate_inv_return, future_goal_value, annual_sip, df>>

vars == <<fn, pc, exc, i, analyticsVars, goalVars>>

-----------------------------------------------------------------------------
(* Bounds of the analytics model.                                          *)

MaxDate == 2
MaxSeriesLen == 2
MaxAnchors == 3

\* Dates are day ordinals; NAVs are small numbers, 0 included (the code tests
\* start_nav > 0, so a non-positive NAV is a case it expects).
Dates == 1..MaxDate
Navs == {0, 1, 3}

-----------------------------------------------------------------------------
(* Python values.                                                          *)

None == [t |-> "None"]
Unset == [t |-> "unset"]
EmptyDict == << >>

RECURSIVE Gcd(_, _)
Gcd(a, b) == IF b = 0 THEN a ELSE Gcd(b, a % b)

Abs(x) == IF x < 0 THEN -x ELSE x

\* A finite float64, held as the reduced fraction n/d it stands for.
Num(n, d) ==
    LET g == Gcd(Abs(n), Abs(d))
        s == IF d < 0 THEN -1 ELSE 1
    IN  [t |-> "float", n |-> (s * n) \div g, d |-> (s * d) \div g]

Inf(sign) == [t |-> "inf", s |-> sign]
NaN == [t |-> "nan"]

\* numpy float64 division: a zero divisor gives inf or nan, never an exception.
TrueDiv(a, b) ==
    IF b = 0
    THEN IF a > 0 THEN Inf(1) ELSE IF a < 0 THEN Inf(-1) ELSE NaN
    ELSE Num(a, b)

\* x * 100 on the result of a division.
Times100(x) == IF x.t = "float" THEN Num(x.n * 100, x.d) ELSE x

DictSet(d, k, v) == [x \in (DOMAIN d) \cup {k} |-> IF x = k THEN v ELSE d[x]]

-----------------------------------------------------------------------------
(* Natural numbers of any size: the exact intermediate results of float64  *)
(* arithmetic. A number is the sequence of its base-2^13 limbs, lowest     *)
(* first, without leading zero limbs; zero is the empty sequence. The      *)
(* operators avoid recursion over the limbs (carries are looked ahead), so *)
(* that numbers of a thousand bits evaluate within a small stack.          *)

LimbBits == 13
Limb == 8192

RECURSIVE Pow2(_)
Pow2(k) == IF k = 0 THEN 1 ELSE 2 * Pow2(k - 1)

Max(S) == CHOOSE x \in S : \A y \in S : y <= x
Min(S) == CHOOSE x \in S : \A y \in S : x <= y

Zeros(n) == [k \in 1..n |-> 0]

BLimb(a, k) == IF k >= 1 /\ k <= Len(a) THEN a[k] ELSE 0

\* a without its leading zero limbs
BNorm(a) ==
    LET nz == {k \in 1..Len(a) : a[k] # 0}
    IN  IF nz = {} THEN << >> ELSE SubSeq(a, 1, Max(nz))

\* One pass of carrying: every limb keeps its low 13 bits and takes the rest
\* of the limb below.
CarryPass(x) == [k \in 1..(Len(x) + 1) |-> (BLimb(x, k) % Limb) + (BLimb(x, k - 1) \div Limb)]

\* The number whose limb k holds x[k] < 2^31: three passes leave limbs of at
\* most 2^13, and the remaining carries of 1 are looked ahead.
BCarry(x) ==
    LET LookAhead(w) ==
            LET gen == {j \in 1..Len(w) : w[j] >= Limb}
                c(k) == IF \E j \in gen :
                               j < k /\ \A m \in (j + 1)..(k - 1) : w[m] >= Limb - 1
                        THEN 1 ELSE 0
            IN  IF gen = {} THEN BNorm(w)
                ELSE BNorm([k \in 1..(Len(w) + 1) |-> (BLimb(w, k) + c(k)) % Limb])
    IN  LookAhead(CarryPass(CarryPass(CarryPass(x))))

RECURSIVE BFromInt(_)
BFromInt(n) == IF n = 0 THEN << >> ELSE <<n % Limb>> \o BFromInt(n \div Limb)

\* -1, 0 or 1 as a < b, a = b, a > b.
BCmp(a, b) ==
    IF Len(a) > Len(b) THEN 1
    ELSE IF Len(a) < Len(b) THEN -1
    ELSE LET diff == {k \in 1..Len(a) : a[k] # b[k]}
         IN  IF diff = {} THEN 0
             ELSE IF a[Max(diff)] > b[Max(diff)] THEN 1 ELSE -1

BAdd(a, b) ==
    BCarry([k \in 1..(IF Len(a) > Len(b) THEN Len(a) ELSE Len(b)) |->
                BLimb(a, k) + BLimb(b, k)])

\* a - b for a >= b: the borrows are looked ahead.
BSub(a, b) ==
    LET d == [k \in 1..Len(a) |-> a[k] - BLimb(b, k)]
        neg == {j \in 1..Len(a) : d[j] < 0}
        borrow(k) == IF \E j \in neg : j < k /\ \A m \in (j + 1)..(k - 1) : d[m] <= 0
                     THEN 1 ELSE 0
    IN  BNorm([k \in 1..Len(a) |-> (d[k] - borrow(k) + Limb) % Limb])

\* a * m for 0 <= m < 2^17.
BMulSmall(a, m) == BCarry([k \in 1..Len(a) |-> a[k] * m])

RECURSIVE BColumn(_, _, _, _)
\* the sum of a[k - j + 1] * b[j] over j
BColumn(a, b, k, j) ==
    IF j > Len(b) THEN 0
    ELSE (BLimb(a, k - j + 1) * b[j]) + BColumn(a, b, k, j + 1)

\* a * b, where the shorter factor has at most 31 limbs.
BMul(a, b) ==
    LET long == IF Len(a) >= Len(b) THEN a ELSE b
        short == IF Len(a) >= Len(b) THEN b ELSE a
    IN  IF short = << >> THEN << >>
        ELSE BCarry([k \in 1..(Len(long) + Len(short)) |-> BColumn(long, short, k, 1)])

RECURSIVE BPow(_, _)
BPow(a, n) == IF n = 0 THEN <<1>> ELSE BMul(BPow(a, n - 1), a)

\* a * 2^n
BShl(a, n) ==
    IF a = << >> THEN a
    ELSE Zeros(n \div LimbBits) \o BMulSmall(a, Pow2(n % LimbBits))

\* floor(a / 2^n)
BShr(a, n) ==
    LET drop == n \div LimbBits
        s == n % LimbBits
    IN  IF drop >= Len(a) THEN << >>
        ELSE BNorm([k \in 1..(Len(a) - drop) |->
                        (BLimb(a, k + drop) \div Pow2(s))
                        + ((BLimb(a, k + drop + 1) % Pow2(s)) * Pow2(LimbBits - s))])

RECURSIVE IntBitLen(_)
IntBitLen(n) == IF n = 0 THEN 0 ELSE 1 + IntBitLen(n \div 2)

BBitLen(a) ==
    IF a = << >> THEN 0 ELSE (Len(a) - 1) * LimbBits + IntBitLen(a[Len(a)])

BIsOdd(a) == a # << >> /\ a[1] % 2 = 1

RECURSIVE BDigit(_, _, _, _)
\* the largest d in lo..hi with d * b <= r
BDigit(r, b, lo, hi) ==
    IF lo = hi THEN lo
    ELSE LET mid == (lo + hi + 1) \div 2
         IN  IF BCmp(BMulSmall(b, mid), r) <= 0
             THEN BDigit(r, b, mid, hi)
             ELSE BDigit(r, b, lo, mid - 1)

RECURSIVE BDivModFrom(_, _, _, _, _)
\* Long division from the top limb down; q holds the quotient's limbs so far
\* (lowest first) and r the remainder so far.
BDivModFrom(a, b, k, q, r) ==
    IF k = 0 THEN [q |-> BNorm(q), r |-> r]
    ELSE LET Down(q2, r3) ==
                 IF Len(r3) >= 0 /\ Len(q2) >= 0
                 THEN BDivModFrom(a, b, k - 1, q2, r3)
                 ELSE [q |-> << >>, r |-> << >>]
             Take(r2, d) == Down(<<d>> \o q, BSub(r2, BMulSmall(b, d)))
             Bring(r2) == Take(r2, BDigit(r2, b, 0, Limb - 1))
         IN  Bring(BNorm(<<a[k]>> \o r))

\* [q, r] with a = q * b + r and 0 <= r < b, for b > 0 (long division by limbs).
BDivMod(a, b) == BDivModFrom(a, b, Len(a), << >>, << >>)

RECURSIVE IntTrailingZeros(_)
IntTrailingZeros(n) == IF n % 2 = 1 THEN 0 ELSE 1 + IntTrailingZeros(n \div 2)

\* the number of trailing zero bits of a > 0
BTrailingZeros(a) ==
    LET k == Min({j \in 1..Len(a) : a[j] # 0})
    IN  (k - 1) * LimbBits + IntTrailingZeros(a[k])

-----------------------------------------------------------------------------
(* float64 arithmetic of goal_planning.py: a finite float is s * m * 2^e   *)
(* with s = 1 or -1 and m odd (or zero, with e = 0); every operation is    *)
(* the exact result rounded to 53 bits, ties to even. Results of the size  *)
(* of 2^1024 become inf; subnormal results (below 2^-1022) are not         *)
(* modelled, the inputs stay far from them.                                *)

MantissaBits == 53
MaxExponent == 1024

F64(s, m, e) == [t |-> "f64", s |-> s, m |-> m, e |-> e]
Raise(name) == [t |-> "raise", exc |-> name]

\* the float64 nearest to s * M * 2^e
FRound(s, M, e) ==
    IF M = << >> THEN F64(s, << >>, 0)
    ELSE LET \* m odd: the float, or inf when it is too large
             Pack(m, e2) == IF BBitLen(m) + e2 > MaxExponent THEN Inf(s) ELSE F64(s, m, e2)
             Odd(q2, e2, tz) == Pack(BShr(q2, tz), e2 + tz)
             \* q the bits kept, c the bits dropped against one half
             Even(q, c, e2) ==
                 IF c > 0 \/ (c = 0 /\ BIsOdd(q))
                 THEN Odd(BAdd(q, <<1>>), e2, BTrailingZeros(BAdd(q, <<1>>)))
                 ELSE Odd(q, e2, BTrailingZeros(q))
             Kept(drop, q) ==
                 Even(q,
                      IF drop = 0 THEN -1
                      ELSE BCmp(BSub(M, BShl(q, drop)), BShl(<<1>>, drop - 1)),
                      e + drop)
             Drop(drop) == Kept(drop, BShr(M, drop))
             Bits(n) == Drop(IF n > MantissaBits THEN n - MantissaBits ELSE 0)
         IN  Bits(BBitLen(M))

\* the float64 nearest to s * (N / D) * 2^e, for D > 0: the quotient is taken
\* to at least 55 bits and a sticky bit stands for the remainder.
RoundRat(s, N, D, e) ==
    IF N = << >> THEN F64(s, << >>, 0)
    ELSE LET Sticky(qr, t) ==
                 FRound(s, BAdd(BMulSmall(qr.q, 2), IF qr.r = << >> THEN << >> ELSE <<1>>),
                        e - t - 1)
             Scaled(t) == Sticky(BDivMod(BShl(N, t), D), t)
             Need(need) == Scaled(IF need > 0 THEN need ELSE 0)
         IN  Need(MantissaBits + 2 + BBitLen(D) - BBitLen(N))

FFromInt(n) == FRound(IF n < 0 THEN -1 ELSE 1, BFromInt(Abs(n)), 0)

FIsZero(x) == x.t = "f64" /\ x.m = << >>

FNeg(x) ==
    IF x.t = "nan" THEN x
    ELSE IF x.t = "inf" THEN Inf(-x.s)
    ELSE F64(-x.s, x.m, x.e)

FAbs(x) ==
    IF x.t = "nan" THEN x
    ELSE IF x.t = "inf" THEN Inf(1)
    ELSE F64(1, x.m, x.e)

FAdd(x, y) ==
    IF x.t = "nan" \/ y.t = "nan" THEN NaN
    ELSE IF x.t = "inf" THEN (IF y.t = "inf" /\ y.s # x.s THEN NaN ELSE x)
    ELSE IF y.t = "inf" THEN y
    ELSE LET \* X and Y are the magnitudes in units of 2^e, c compares them
             Sign(c) == IF x.s = y.s \/ c > 0 THEN x.s ELSE IF c < 0 THEN y.s ELSE 1
             Magnitude(X, Y, c) ==
                 IF x.s = y.s THEN BAdd(X, Y)
                 ELSE IF c > 0 THEN BSub(X, Y)
                 ELSE IF c < 0 THEN BSub(Y, X)
                 ELSE << >>
             Compared(X, Y, c, e) == FRound(Sign(c), Magnitude(X, Y, c), e)
             Aligned(X, Y, e) == Compared(X, Y, BCmp(X, Y), e)
             At(e) == Aligned(BShl(x.m, x.e - e), BShl(y.m, y.e - e), e)
         IN  At(IF x.e < y.e THEN x.e ELSE y.e)

FSub(x, y) == FAdd(x, FNeg(y))

FMul(x, y) ==
    IF x.t = "nan" \/ y.t = "nan" THEN NaN
    ELSE IF x.t = "inf" \/ y.t = "inf"
         THEN (IF FIsZero(x) \/ FIsZero(y) THEN NaN ELSE Inf(x.s * y.s))
    ELSE FRound(x.s * y.s, BMul(x.m, y.m), x.e + y.e)

\* x / y of numpy float64: a zero divisor gives inf or nan.
FDiv(x, y) ==
    IF x.t = "nan" \/ y.t = "nan" THEN NaN
    ELSE IF x.t = "inf" THEN (IF y.t = "inf" THEN NaN ELSE Inf(x.s * y.s))
    ELSE IF y.t = "inf" THEN F64(x.s * y.s, << >>, 0)
    ELSE IF FIsZero(y) THEN (IF FIsZero(x) THEN NaN ELSE Inf(x.s * y.s))
    ELSE RoundRat(x.s * y.s, x.m, y.m, x.e - y.e)

\* x / y of Python floats: a zero divisor raises.
PyDiv(x, y) == IF FIsZero(y) THEN Raise("ZeroDivisionError") ELSE FDiv(x, y)

\* -1, 0 or 1 as x < y, x = y, x > y (neither is nan).
FCmp(x, y) ==
    LET d == FSub(x, y)
    IN  IF d.t = "inf" THEN d.s
        ELSE IF d.t = "nan" \/ d.m = << >> THEN 0
        ELSE d.s

SignPow(s, n) == IF s = -1 /\ n % 2 = 1 THEN -1 ELSE 1

\* pow(x, n) of the C library for an integer n, taken as correctly rounded.
FPow(x, n) ==
    IF n = 0 THEN FFromInt(1)
    ELSE IF x.t = "nan" THEN NaN
    ELSE IF x.t = "inf"
         THEN (IF n > 0 THEN Inf(SignPow(x.s, n)) ELSE F64(SignPow(x.s, -n), << >>, 0))
    ELSE IF FIsZero(x)
         THEN (IF n > 0 THEN F64(SignPow(x.s, n), << >>, 0) ELSE Inf(SignPow(x.s, -n)))
    ELSE IF n > 0 THEN FRound(SignPow(x.s, n), BPow(x.m, n), x.e * n)
    ELSE RoundRat(SignPow(x.s, -n), <<1>>, BPow(x.m, -n), x.e * n)

\* x ** n of Python floats: 0.0 to a negative power and an overflow raise.
PyPow(x, n) ==
    IF FIsZero(x) /\ n < 0 THEN Raise("ZeroDivisionError")
    ELSE LET Checked(p) == IF x.t = "f64" /\ p.t = "inf" THEN Raise("OverflowError") ELSE p
         IN  Checked(FPow(x, n))

\* round(x, 2) of Python: the exact value of x rounded to 2 decimals, ties to
\* even, and the float64 nearest to that decimal.
Round2(x) ==
    IF x.t # "f64" \/ x.e >= 0 THEN x
    ELSE LET \* num = |x| * 100 in units of 2^e, q its whole part
             Even(q, c) == IF c > 0 \/ (c = 0 /\ BIsOdd(q)) THEN BAdd(q, <<1>>) ELSE q
             Whole(num, q) ==
                 Even(q, BCmp(BSub(num, BShl(q, -x.e)), BShl(<<1>>, -x.e - 1)))
             Cents(num) == Whole(num, BShr(num, -x.e))
         IN  RoundRat(x.s, Cents(BMulSmall(x.m, 100)), BFromInt(100), 0)

-----------------------------------------------------------------------------
(* The external NAV data provider (utils._mfapi_utils).                    *)

Row(d, n) == [date |-> d, nav |-> n]
Rows == {Row(d, n) : d \in Dates, n \in Navs}

RECURSIVE SeqsUpTo(_, _)
SeqsUpTo(S, n) ==
    IF n = 0 THEN {<< >>}
    ELSE LET shorter == SeqsUpTo(S, n - 1)
         IN  shorter \cup {Append(s, x) : s \in {q \in shorter : Len(q) = n - 1}, x \in S}

\* get_mf_data_direct: None, an empty dict, a dict without 'data', or a dict
\* whose 'data' is a list of observations in the provider's order.
ProviderResponses ==
    {None, [t |-> "dict", keys |-> {}, data |-> << >>],
     [t |-> "dict", keys |-> {"status"}, data |-> << >>]}
    \cup {[t |-> "dict", keys |-> {"meta", "data"}, data |-> s] :
            s \in SeqsUpTo(Rows, MaxSeriesLen)}

AnchorLists == SeqsUpTo(Dates, MaxAnchors)

\* mf.get_scheme_details: raises, or returns a non-mapping, or a mapping.
Codes == {"100027", "120503"}
SchemeNames == {"Fund A", "120503"}
SchemeDetailOutcomes ==
    {[t |-> "raise"], None, [t |-> "str", v |-> "error"], [t |-> "list"],
     [t |-> "dict", keys |-> {}, scheme_name |-> ""],
     [t |-> "dict", keys |-> {"fund_house"}, scheme_name |-> ""]}
    \cup {[t |-> "dict", keys |-> {"fund_house", "scheme_name"}, scheme_name |-> n] :
            n \in SchemeNames}

-----------------------------------------------------------------------------
(* DataFrame operations.                                                   *)

\* `not scheme_data or 'data' not in scheme_data`
NoData(sd) == \/ sd.t = "None"
              \/ sd.keys = {}
              \/ "data" \notin sd.keys

IsSortedByDate(s) == \A k \in 1..(Len(s) - 1) : s[k].date <= s[k + 1].date

Perms(s) ==
    {p \in [1..Len(s) -> 1..Len(s)] : \A a, b \in 1..Len(s) : a # b => p[a] # p[b]}

\* nav_data.sort_values('date'): ascending by date; the default sort is not
\* stable, so rows of one date come out in any order.
SortValues(s) ==
    {t \in {[k \in 1..Len(s) |-> s[p[k]]] : p \in Perms(s)} : IsSortedByDate(t)}

\* nav_data[nav_data['date'] <= d]
RowsOnOrBefore(frame, d) == SelectSeq(frame, LAMBDA r : r.date <= d)

\* Mutant: .iloc[0] in place of .iloc[-1].
LastRowOnOrBefore_First(frame, d) ==
    LET sel == RowsOnOrBefore(frame, d)
    IN  IF Len(sel) > 0 THEN [t |-> "row", date |-> sel[1].date, nav |-> sel[1].nav]
        ELSE None

\* `... .iloc[-1] if len(...) > 0 else None`
LastRowOnOrBefore(frame, d) ==
    LET sel == RowsOnOrBefore(frame, d)
    IN  IF Len(sel) > 0 THEN [t |-> "row", date |-> sel[Len(sel)].date,
                                           nav |-> sel[Len(sel)].nav]
        ELSE None

\* strftime('%Y-%m-%d') of both dates around " to "
PeriodLabel(end_date, start_date) == <<end_date, "to", start_date>>

\* f"{i}-Year Return"
YearLabel(k) == <<k, "-Year Return">>

YoYReturn(start_row, end_row) ==
    Times100(TrueDiv(end_row.nav - start_row.nav, start_row.nav))

\* The value stored for one period of calculate_yoy_returns.
YoYEntry(start_nav_row, end_nav_row) ==
    IF start_nav_row # None /\ end_nav_row # None
    THEN YoYReturn(start_nav_row, end_nav_row)
    ELSE None

\* Mutant: no `if years > 0 else 0`.
CagrValue_NoZeroGuard(start_row, end_row) ==
    LET days == end_row.date - start_row.date
    IN  IF days # 0
        THEN [t |-> "cagr", end_nav |-> end_row.nav, start_nav |-> start_row.nav,
              days |-> days]
        ELSE Inf(1)

\* Mutant: elapsed time taken between the anchor dates.
CagrValue_AnchorDays(start_row, end_row) ==
    LET days == dates_chronological[1] - dates_chronological[i + 1]
    IN  IF days > 0
        THEN [t |-> "cagr", end_nav |-> end_row.nav, start_nav |-> start_row.nav,
              days |-> days]
        ELSE Num(0, 1)

\* ((end_nav / start_nav) ** (1 / years) - 1) * 100 with years = days / 365.25:
\* the value is kept as the term it was computed from.
CagrValue(start_row, end_row) ==
    LET days == end_row.date - start_row.date
    IN  IF days > 0
        THEN [t |-> "cagr", end_nav |-> end_row.nav, start_nav |-> start_row.nav,
              days |-> days]
        ELSE Num(0, 1)

\* Mutant: `start_nav >= 0` in place of `start_nav > 0`.
CagrEntry_ZeroNavAllowed(start_nav_row, end_nav_row) ==
    IF start_nav_row # None /\ end_nav_row # None
    THEN IF start_nav_row.nav >= 0
         THEN CagrValue(start_nav_row, end_nav_row)
         ELSE None
    ELSE None

\* The value stored for one window of calculate_rolling_cagr.
CagrEntry(start_nav_row, end_nav_row) ==
    IF start_nav_row # None /\ end_nav_row # None
    THEN IF start_nav_row.nav > 0
         THEN CagrValue(start_nav_row, end_nav_row)
         ELSE None
    ELSE None

-----------------------------------------------------------------------------
(* calculate_yoy_returns                                                   *)

LoadFrame(next_i) ==
    IF NoData(scheme_data)
    THEN /\ pc' = "done"
         /\ returns' = EmptyDict
         /\ UNCHANGED <<exc, nav_data, i>>
    ELSE IF scheme_data.data = << >>
    THEN \* pd.DataFrame([]) has no 'date' column
         /\ pc' = "raised"
         /\ exc' = "KeyError"
         /\ UNCHANGED <<nav_data, i, returns>>
    ELSE /\ \E sorted \in SortValues(scheme_data.data) : nav_data' = sorted
         /\ returns' = EmptyDict
         /\ i' = next_i
         /\ pc' = "loop"
         /\ exc' = exc

YoYCall ==
    /\ fn = "yoy" /\ pc = "call"
    /\ LoadFrame(0)
    /\ UNCHANGED <<fn, scheme_data, dates_chronological, mf_code, scheme_details, result>>
    /\ UNCHANGED goalVars

YoYStep ==
    /\ fn = "yoy" /\ pc = "loop"
    /\ i < Len(dates_chronological) - 1
    /\ LET start_date == dates_chronological[i + 2]
           end_date == dates_chronological[i + 1]
           start_nav_row == LastRowOnOrBefore(nav_data, start_date)
           end_nav_row == LastRowOnOrBefore(nav_data, end_date)
           period == PeriodLabel(end_date, start_date)
       IN  returns' = DictSet(returns, period, YoYEntry(start_nav_row, end_nav_row))
    /\ i' = i + 1
    /\ UNCHANGED <<fn, pc, exc, scheme_data, dates_chronological, nav_data,
                   mf_code, scheme_details, result>>
    /\ UNCHANGED goalVars

YoYDone ==
    /\ fn = "yoy" /\ pc = "loop"
    /\ i >= Len(dates_chronological) - 1
    /\ pc' = "done"
    /\ UNCHANGED <<fn, exc, scheme_data, dates_chronological, nav_data, i, returns,
                   mf_code, scheme_details, result>>
    /\ UNCHANGED goalVars

-----------------------------------------------------------------------------
(* calculate_rolling_cagr                                                  *)

CagrCall ==
    /\ fn = "cagr" /\ pc = "call"
    /\ IF ~NoData(scheme_data) /\ scheme_data.data # << >> /\ dates_chronological = << >>
       THEN \* end_date = dates_chronological[0] on an empty list
            /\ \E sorted \in SortValues(scheme_data.data) : nav_data' = sorted
            /\ returns' = EmptyDict
            /\ pc' = "raised"
            /\ exc' = "IndexError"
            /\ i' = i
       ELSE LoadFrame(1)
    /\ UNCHANGED <<fn, scheme_data, dates_chronological, mf_code, scheme_details, result>>
    /\ UNCHANGED goalVars

CagrStep ==
    /\ fn = "cagr" /\ pc = "loop"
    /\ i < Len(dates_chronological)
    /\ LET end_date == dates_chronological[1]
           start_date == dates_chronological[i + 1]
           start_nav_row == LastRowOnOrBefore(nav_data, start_date)
           end_nav_row == LastRowOnOrBefore(nav_data, end_date)
           period == YearLabel(i)
       IN  returns' = DictSet(returns, period, CagrEntry(start_nav_row, end_nav_row))
    /\ i' = i + 1
    /\ UNCHANGED <<fn, pc, exc, scheme_data, dates_chronological, nav_data,
                   mf_code, scheme_details, result>>
    /\ UNCHANGED goalVars

CagrDone ==
    /\ fn = "cagr" /\ pc = "loop"
    /\ i >= Len(dates_chronological)
    /\ pc' = "done"
    /\ UNCHANGED <<fn, exc, scheme_data, dates_chronological, nav_data, i, returns,
                   mf_code, scheme_details, result>>
    /\ UNCHANGED goalVars

-----------------------------------------------------------------------------
(* get_scheme_name                                                         *)

\* Mutant: no `'scheme_name' in scheme_details` test.
SchemeNameOf_NoKeyTest(code, details) ==
    IF details.t = "raise" THEN code
    ELSE IF details.t = "dict" THEN details.scheme_name ELSE code

SchemeNameOf(code, details) ==
    IF details.t = "raise" THEN code
    ELSE IF details.t = "dict" /\ "scheme_name" \in details.keys
         THEN details.scheme_name
         ELSE code

GetSchemeName ==
    /\ fn = "name" /\ pc = "call"
    /\ result' = SchemeNameOf(mf_code, scheme_details)
    /\ pc' = "done"
    /\ UNCHANGED <<fn, exc, scheme_data, dates_chronological, nav_data, i, returns,
                   mf_code, scheme_details>>
    /\ UNCHANGED goalVars

-----------------------------------------------------------------------------

InitAnalytics ==
    /\ fn \in {"yoy", "cagr"}
    /\ pc = "call"
    /\ exc = "-"
    /\ scheme_data \in ProviderResponses
    /\ dates_chronological \in AnchorLists
    /\ nav_data = << >>
    /\ i = 0
    /\ returns = EmptyDict
    /\ mf_code = "100027"
    /\ scheme_details = Unset
    /\ result = "-"
    /\ texts = Unset
    /\ submitted = FALSE
    /\ goal_value_today = Unset
    /\ inflation_rate = Unset
    /\ years_to_goal = 0
    /\ rate_inv_return = Unset
    /\ future_goal_value = Unset
    /\ annual_sip = Unset
    /\ df = << >>

InitName ==
    /\ fn = "name"
    /\ pc = "call"
    /\ exc = "-"
    /\ scheme_data = Unset
    /\ dates_chronological = << >>
    /\ nav_data = << >>
    /\ i = 0
    /\ returns = EmptyDict
    /\ mf_code \in Codes
    /\ scheme_details \in SchemeDetailOutcomes
    /\ result = "-"
    /\ texts = Unset
    /\ submitted = FALSE
    /\ goal_value_today = Unset
    /\ inflation_rate = Unset
    /\ years_to_goal = 0
    /\ rate_inv_return = Unset
    /\ future_goal_value = Unset
    /\ annual_sip = Unset
    /\ df = << >>

Init == InitAnalytics \/ InitName

Next ==
    \/ YoYCall \/ YoYStep \/ YoYDone
    \/ CagrCall \/ CagrStep \/ CagrDone
    \/ GetSchemeName

Spec == Init /\ [][Next]_vars

-----------------------------------------------------------------------------
(* goal_planning.py: the texts of the form.                                *)
(* A text is a sequence of characters; the model's alphabet is the digits, *)
(* the signs, the point, the space and "x", which stands for a character   *)
(* no decimal literal contains.                                            *)

DigitChars == {"0", "1", "2", "3", "4", "5", "6", "7", "8", "9"}

DigitVal(c) ==
    CASE c = "0" -> 0 [] c = "1" -> 1 [] c = "2" -> 2 [] c = "3" -> 3 [] c = "4" -> 4
      [] c = "5" -> 5 [] c = "6" -> 6 [] c = "7" -> 7 [] c = "8" -> 8 [] c = "9" -> 9

\* str.strip(): float() and int() ignore the spaces around the literal
Strip(t) ==
    LET ns == {k \in 1..Len(t) : t[k] # " "}
    IN  IF ns = {} THEN << >> ELSE SubSeq(t, Min(ns), Max(ns))

HasSign(u) == Len(u) > 0 /\ u[1] \in {"-", "+"}
SignOf(u) == IF Len(u) > 0 /\ u[1] = "-" THEN -1 ELSE 1
Unsigned(u) == IF HasSign(u) THEN Tail(u) ELSE u

AllDigits(d) == \A k \in 1..Len(d) : d[k] \in DigitChars

RECURSIVE DigitsToInt(_)
DigitsToInt(d) ==
    IF d = << >> THEN 0 ELSE 10 * DigitsToInt(SubSeq(d, 1, Len(d) - 1)) + DigitVal(d[Len(d)])

\* float(val): the float64 nearest to the decimal literal, or ValueError
\* (literals of at most 9 digits: their digits fit an integer of the model)
PyFloat(val) ==
    LET body == Unsigned(Strip(val))
        dots == {k \in 1..Len(body) : body[k] = "."}
        dot == IF dots = {} THEN Len(body) + 1 ELSE Min(dots)
        int_part == SubSeq(body, 1, dot - 1)
        frac_part == SubSeq(body, dot + 1, Len(body))
    IN  IF /\ Cardinality(dots) <= 1
           /\ AllDigits(int_part) /\ AllDigits(frac_part)
           /\ Len(int_part) + Len(frac_part) > 0
        THEN RoundRat(SignOf(Strip(val)), BFromInt(DigitsToInt(int_part \o frac_part)),
                      BPow(<<10>>, Len(frac_part)), 0)
        ELSE Raise("ValueError")

\* int(val): the integer of the decimal literal, or ValueError
PyInt(val) ==
    LET body == Unsigned(Strip(val))
    IN  IF Len(body) > 0 /\ AllDigits(body)
        THEN [t |-> "int", v |-> SignOf(Strip(val)) * DigitsToInt(body)]
        ELSE Raise("ValueError")

\* The defaults are ints; every use of them converts to the same float64.
safe_float(val, default) ==
    LET Except(v) == IF v.t = "raise" THEN FFromInt(default) ELSE v
    IN  Except(PyFloat(val))

safe_int(val, default) ==
    LET Except(v) == IF v.t = "raise" THEN default ELSE v.v
    IN  Except(PyInt(val))

DefaultGoalValue == 2400000
DefaultInflation == 10
DefaultYears == 16
DefaultReturn == 10

-----------------------------------------------------------------------------
(* goal_planning.py: the calculation.                                      *)

One == FFromInt(1)
Hundred == FFromInt(100)
PlusZero == F64(1, << >>, 0)

\* (mutant) the future value left unrounded
FutureGoalValue_Unrounded(goal, inflation, years) ==
    LET Grown(growth) == IF growth.t = "raise" THEN growth ELSE FMul(goal, growth)
    IN  Grown(PyPow(FAdd(One, PyDiv(inflation, Hundred)), years))

\* round(goal_value_today * ((1 + inflation_rate/100) ** years_to_goal), 2)
FutureGoalValue(goal, inflation, years) ==
    LET Grown(growth) == IF growth.t = "raise" THEN growth ELSE Round2(FMul(goal, growth))
    IN  Grown(PyPow(FAdd(One, PyDiv(inflation, Hundred)), years))

\* (mutant) payments due at the beginning of each period: when = 1
Pmt_Begin(rate, nper, pv, fv) ==
    LET fact(temp) ==
            IF FIsZero(rate) THEN FFromInt(nper)
            ELSE FDiv(FMul(FAdd(One, rate), FSub(temp, One)), rate)
        payment(temp) == FDiv(FNeg(FAdd(fv, FMul(pv, temp))), fact(temp))
    IN  payment(FPow(FAdd(One, rate), nper))

\* numpy_financial.pmt(rate, nper, pv, fv, when='end'), on numpy float64:
\*   temp = (1 + rate)**nper
\*   fact = where(rate == 0, nper, (1 + masked_rate*when)*(temp - 1)/masked_rate)
\*   return -(fv + pv*temp)/fact
Pmt(rate, nper, pv, fv) ==
    LET when == PlusZero
        mask == FIsZero(rate)
        masked_rate == IF mask THEN One ELSE rate
        fact(temp) ==
            IF mask THEN FFromInt(nper)
            ELSE FDiv(FMul(FAdd(One, FMul(masked_rate, when)), FSub(temp, One)),
                      masked_rate)
        payment(temp) == FDiv(FNeg(FAdd(fv, FMul(pv, temp))), fact(temp))
    IN  payment(FPow(FAdd(One, rate), nper))

\* annual_sip * (((1 + rate/100) ** k - 1) / (rate/100)) if rate != 0
\* else annual_sip * k
CorpusValue(sip, rate, k) ==
    IF ~FIsZero(rate)
    THEN LET Times(factor) == IF factor.t = "raise" THEN factor ELSE FMul(sip, factor)
             Less1(growth, r) ==
                 Times(IF growth.t = "raise" THEN growth ELSE PyDiv(FSub(growth, One), r))
             Annuity(r) == Less1(PyPow(FAdd(One, r), k), r)
         IN  Annuity(PyDiv(rate, Hundred))
    ELSE FMul(sip, FFromInt(k))

\* the form: four text inputs read through safe_float / safe_int
GoalForm ==
    /\ fn = "goal" /\ pc = "call"
    /\ goal_value_today' = safe_float(texts.goal, DefaultGoalValue)
    /\ inflation_rate' = safe_float(texts.inflation, DefaultInflation)
    /\ years_to_goal' = safe_int(texts.years, DefaultYears)
    /\ rate_inv_return' = safe_float(texts.rate, DefaultReturn)
    /\ pc' = IF submitted THEN "future" ELSE "done"
    /\ UNCHANGED <<fn, exc, i, analyticsVars, texts, submitted, future_goal_value,
                   annual_sip, df>>

GoalFuture ==
    /\ fn = "goal" /\ pc = "future"
    /\ LET Assign(v) ==
               IF v.t = "raise"
               THEN pc' = "raised" /\ exc' = v.exc /\ UNCHANGED future_goal_value
               ELSE pc' = "sip" /\ future_goal_value' = v /\ UNCHANGED exc
       IN  Assign(FutureGoalValue(goal_value_today, inflation_rate, years_to_goal))
    /\ UNCHANGED <<fn, i, analyticsVars, texts, submitted, goal_value_today,
                   inflation_rate, years_to_goal, rate_inv_return, annual_sip, df>>

GoalSip ==
    /\ fn = "goal" /\ pc = "sip"
    /\ annual_sip' = Pmt(PyDiv(rate_inv_return, Hundred), years_to_goal, PlusZero,
                         FNeg(future_goal_value))
    /\ pc' = "frame"
    /\ UNCHANGED <<fn, exc, i, analyticsVars, texts, submitted, goal_value_today,
                   inflation_rate, years_to_goal, rate_inv_return, future_goal_value, df>>

\* "YEAR": list(range(1, years_to_goal + 1)), "CORPUS VALUE": [0.0] * years_to_goal
GoalFrame ==
    /\ fn = "goal" /\ pc = "frame"
    /\ df' = [k \in 1..years_to_goal |-> PlusZero]
    /\ i' = 1
    /\ pc' = "loop"
    /\ UNCHANGED <<fn, exc, analyticsVars, texts, submitted, goal_value_today,
                   inflation_rate, years_to_goal, rate_inv_return, future_goal_value,
                   annual_sip>>

GoalGlideStep ==
    /\ fn = "goal" /\ pc = "loop"
    /\ i <= Len(df)
    /\ LET Assign(v) ==
               IF v.t = "raise"
               THEN pc' = "raised" /\ exc' = v.exc /\ UNCHANGED <<df, i>>
               ELSE df' = [df EXCEPT ![i] = v] /\ i' = i + 1 /\ UNCHANGED <<pc, exc>>
       IN  Assign(CorpusValue(annual_sip, rate_inv_return, i))
    /\ UNCHANGED <<fn, analyticsVars, texts, submitted, goal_value_today,
                   inflation_rate, years_to_goal, rate_inv_return, future_goal_value,
                   annual_sip>>

\* the chart and the downloads that follow the loop are not modelled
GoalDone ==
    /\ fn = "goal" /\ pc = "loop"
    /\ i > Len(df)
    /\ pc' = "done"
    /\ UNCHANGED <<fn, exc, i, analyticsVars, goalVars>>

\* The texts a user may leave in the fields; an unparseable text also stands
\* for the field's default text, which parses to the same value.
GoalTexts == {<<"1", "0", "0">>, <<"x">>}
InflationTexts == {<<"0">>, <<"-", "1", "0", "0">>, << >>}
YearsTexts == {<<"2">>, <<"1", "1">>, <<"0">>, <<"-", "1">>, <<"1", ".", "5">>}
RateTexts == {<<"0">>, <<"-", "2", "0", "0">>, <<" ", "7", ".", "5">>, <<"x">>}

GoalInit ==
    /\ fn = "goal"
    /\ pc = "call"
    /\ exc = "-"
    /\ i = 0
    /\ scheme_data = Unset
    /\ dates_chronological = << >>
    /\ nav_data = << >>
    /\ returns = EmptyDict
    /\ mf_code = "-"
    /\ scheme_details = Unset
    /\ result = "-"
    /\ texts \in [goal : GoalTexts, inflation : InflationTexts, years : YearsTexts,
                  rate : RateTexts]
    /\ submitted \in BOOLEAN
    /\ goal_value_today = Unset
    /\ inflation_rate = Unset
    /\ years_to_goal = 0
    /\ rate_inv_return = Unset
    /\ future_goal_value = Unset
    /\ annual_sip = Unset
    /\ df = << >>

GoalNext ==
    \/ GoalForm \/ GoalFuture \/ GoalSip \/ GoalFrame \/ GoalGlideStep \/ GoalDone

GoalSpec == GoalInit /\ [][GoalNext]_vars

-----------------------------------------------------------------------------
(* The NAV series as the provider returned it, read without the DataFrame: *)
(* what the claims about lookups are stated against.                       *)

Observations == IF NoData(scheme_data) THEN << >> ELSE scheme_data.data

ObsOnOrBefore(d) == {k \in 1..Len(Observations) : Observations[k].date <= d}

Resolves(d) == ObsOnOrBefore(d) # {}

\* The observations of the latest date on or before d.
LatestObs(d) ==
    {Observations[k] : k \in {a \in ObsOnOrBefore(d) :
        \A b \in ObsOnOrBefore(d) : Observations[b].date <= Observations[a].date}}

\* The frame was built: the call got past the no-data guard and the columns.
Loaded == fn \in {"yoy", "cagr"} /\ pc \in {"loop", "done"} /\ ~NoData(scheme_data)

Pairs == 1..(Len(dates_chronological) - 1)
Newer(k) == dates_chronological[k]
Older(k) == dates_chronological[k + 1]

\* v is (newer - older) / older * 100 in float64 arithmetic.
IsPct(v, newer, older) ==
    IF older # 0
    THEN v.t = "float" /\ v.n * older = (newer - older) * 100 * v.d
    ELSE /\ newer > 0 => v = Inf(1)
         /\ newer < 0 => v = Inf(-1)
         /\ newer = 0 => v = NaN

\* C1 (as claimed): every returned report of calculate_yoy_returns has the key
\* of every consecutive pair of anchors; the value is None when an endpoint
\* does not resolve and a computed value otherwise.
C1_EveryPairHasKey ==
    (fn = "yoy" /\ pc = "done") =>
        \A k \in Pairs :
            /\ PeriodLabel(Newer(k), Older(k)) \in DOMAIN returns
            /\ (Resolves(Newer(k)) /\ Resolves(Older(k)))
                 <=> returns[PeriodLabel(Newer(k), Older(k))] # None

\* C2 (as claimed): no call of calculate_yoy_returns or calculate_rolling_cagr
\* ends in an exception.
C2_NeverRaises == fn \in {"yoy", "cagr"} => pc # "raised"

\* C5: every processed pair whose endpoints resolve has, under the label
\* "{newer} to {older}", the percentage computed from the latest observation
\* on or before each anchor, whatever the provider's order.
C5_YoYValue ==
    (fn = "yoy" /\ Loaded) =>
        \A k \in 1..i :
            (Resolves(Newer(k)) /\ Resolves(Older(k))) =>
                /\ PeriodLabel(Newer(k), Older(k)) \in DOMAIN returns
                /\ \E n \in LatestObs(Newer(k)), o \in LatestObs(Older(k)) :
                       IsPct(returns[PeriodLabel(Newer(k), Older(k))], n.nav, o.nav)

C5_Witness ==
    /\ fn = "yoy" /\ pc = "done" /\ Loaded
    /\ Len(Observations) = 2
    /\ Observations[1].date > Observations[2].date
    /\ \E k \in Pairs :
          /\ Newer(k) > Older(k)
          /\ Resolves(Older(k))
          /\ returns[PeriodLabel(Newer(k), Older(k))].t = "float"
          /\ returns[PeriodLabel(Newer(k), Older(k))].n > 0

C7_SameAnchorIsZero ==
    (fn = "cagr" /\ pc = "done" /\ Loaded) =>
        \A k \in Pairs :
            dates_chronological[k + 1] = dates_chronological[1] =>
                returns[YearLabel(k)] = Num(0, 1)

\* C7 (amended): a window whose start anchor equals the end anchor, and whose
\* anchor resolves to an observation with a NAV > 0, has the entry 0.
C7_SameAnchorResolvedIsZero ==
    (fn = "cagr" /\ pc = "done" /\ Loaded) =>
        \A k \in Pairs :
            (/\ dates_chronological[k + 1] = dates_chronological[1]
             /\ Resolves(dates_chronological[1])
             /\ \A o \in LatestObs(dates_chronological[1]) : o.nav > 0) =>
                returns[YearLabel(k)] = Num(0, 1)

C7_Witness ==
    /\ fn = "cagr" /\ pc = "done" /\ Loaded
    /\ \E k \in Pairs :
          /\ dates_chronological[k + 1] = dates_chronological[1]
          /\ returns[YearLabel(k)] = Num(0, 1)

\* C10: elapsed time is taken between the resolved observations: when both
\* endpoints resolve, the start NAV is > 0 and the start observation is not
\* dated strictly before the end observation, the entry is exactly 0.
C10_ObservationDatesDecide ==
    (fn = "cagr" /\ Loaded) =>
        \A k \in 1..(i - 1) :
            LET start == dates_chronological[k + 1]
                end == dates_chronological[1]
            IN  (/\ Resolves(start) /\ Resolves(end)
                 /\ \A o \in LatestObs(start) : o.nav > 0
                 /\ \A s \in LatestObs(start), e \in LatestObs(end) : s.date >= e.date) =>
                    returns[YearLabel(k)] = Num(0, 1)

C10_Witness ==
    /\ fn = "cagr" /\ pc = "done" /\ Loaded
    /\ \E k \in Pairs :
          /\ dates_chronological[k + 1] < dates_chronological[1]
          /\ returns[YearLabel(k)] = Num(0, 1)

\* C9: get_scheme_name always returns; it returns mf_code itself unless the
\* provider returned a mapping that has a scheme name.
C9_SchemeNameTotal ==
    fn = "name" =>
        /\ pc # "raised"
        /\ pc = "done" =>
              /\ ~(scheme_details.t = "dict" /\ "scheme_name" \in scheme_details.keys)
                    => result = mf_code
              /\ result # mf_code
                    => (scheme_details.t = "dict" /\ "scheme_name" \in scheme_details.keys)

C9_Witness ==
    /\ fn = "name" /\ pc = "done"
    /\ scheme_details.t = "dict" /\ "scheme_name" \notin scheme_details.keys
    /\ result = mf_code

-----------------------------------------------------------------------------
(* Claims about the goal planner.                                          *)

Projected == fn = "goal" /\ pc = "done" /\ submitted

\* a valid GoalInput: positive goal, inflation >= 0, at least one year
ValidGoalInput ==
    /\ FCmp(goal_value_today, PlusZero) > 0
    /\ FCmp(inflation_rate, PlusZero) >= 0
    /\ years_to_goal >= 1

Tolerance == F64(1, <<1>>, -40)

\* a and b are finite and differ by at most 2^-40 of b
Close(a, b) ==
    /\ a.t = "f64" /\ b.t = "f64"
    /\ FCmp(FAbs(FSub(a, b)), FMul(FAbs(b), Tolerance)) <= 0

IsDefaultInput ==
    /\ goal_value_today = FFromInt(DefaultGoalValue)
    /\ inflation_rate = FFromInt(DefaultInflation)
    /\ years_to_goal = DefaultYears
    /\ rate_inv_return = FFromInt(DefaultReturn)

\* the float64 nearest to cents / 100
Decimal2(cents) == RoundRat(1, BFromInt(cents), BFromInt(100), 0)

RECURSIVE BToInt(_)
BToInt(a) == IF a = << >> THEN 0 ELSE a[1] + (Limb * BToInt(Tail(a)))

\* the integer a whole-valued float holds
WholeOf(x) == x.s * BToInt(BShl(x.m, x.e))

\* N / D rounded to the nearest integer, ties to even
NearestInt(N, D) ==
    LET Half(qr) ==
            LET c == BCmp(BMulSmall(qr.r, 2), D)
            IN  IF c > 0 \/ (c = 0 /\ BIsOdd(qr.q)) THEN BAdd(qr.q, <<1>>) ELSE qr.q
    IN  Half(BDivMod(N, D))

\* goal * (1 + inflation/100) ^ years in exact arithmetic, rounded to cents,
\* for whole goal and inflation with inflation > -100
ExactCents(goal, inflation, years) ==
    IF years >= 0
    THEN NearestInt(BMul(BMulSmall(BFromInt(goal), 100), BPow(BFromInt(100 + inflation), years)),
                    BPow(BFromInt(100), years))
    ELSE NearestInt(BMul(BMulSmall(BFromInt(goal), 100), BPow(BFromInt(100), -years)),
                    BPow(BFromInt(100 + inflation), -years))

ExactFutureValue ==
    RoundRat(1, ExactCents(WholeOf(goal_value_today), WholeOf(inflation_rate), years_to_goal),
             BFromInt(100), 0)

\* C3 (as stated): for every valid input the last trajectory entry equals
\* future_goal_value within rounding tolerance when the return rate is not 0,
\* and contribution * years equals future_goal_value exactly when it is 0.
C3_LastEntryEqualsGoal ==
    (Projected /\ ValidGoalInput) =>
        IF ~FIsZero(rate_inv_return)
        THEN Close(df[years_to_goal], future_goal_value)
        ELSE FMul(annual_sip, FFromInt(years_to_goal)) = future_goal_value

\* (1 + r) ^ n as the contribution is computed from it
GrowthFactor == FPow(FAdd(One, PyDiv(rate_inv_return, Hundred)), years_to_goal)

\* the annuity equation has a solution in floats: a finite target and a
\* finite growth factor other than 1
Solvable ==
    /\ future_goal_value.t = "f64"
    /\ GrowthFactor.t = "f64"
    /\ GrowthFactor # One

\* C3 (amended): for every valid input with a finite future_goal_value whose
\* return rate is 0, or whose computed growth factor (1+r)^n is finite and
\* differs from 1, the last trajectory entry equals future_goal_value within
\* rounding tolerance; for a return rate of 0 so does contribution * years
\* (within tolerance, not exactly).
C3_LastEntryNearGoal ==
    (Projected /\ ValidGoalInput /\ future_goal_value.t = "f64") =>
        IF ~FIsZero(rate_inv_return)
        THEN Solvable => Close(df[years_to_goal], future_goal_value)
        ELSE /\ Close(df[years_to_goal], future_goal_value)
             /\ Close(FMul(annual_sip, FFromInt(years_to_goal)), future_goal_value)

C3_Witness ==
    /\ Projected /\ ValidGoalInput
    /\ ~FIsZero(rate_inv_return)
    /\ years_to_goal = DefaultYears
    /\ Solvable
    /\ Close(df[years_to_goal], future_goal_value)

\* a field whose text does not parse holds its own default
FieldsFallBack ==
    /\ PyFloat(texts.goal).t = "raise" => goal_value_today = FFromInt(DefaultGoalValue)
    /\ PyFloat(texts.inflation).t = "raise" => inflation_rate = FFromInt(DefaultInflation)
    /\ PyInt(texts.years).t = "raise" => years_to_goal = DefaultYears
    /\ PyFloat(texts.rate).t = "raise" => rate_inv_return = FFromInt(DefaultReturn)
    /\ PyFloat(texts.goal).t # "raise" => goal_value_today = PyFloat(texts.goal)
    /\ PyFloat(texts.inflation).t # "raise" => inflation_rate = PyFloat(texts.inflation)
    /\ PyInt(texts.years).t # "raise" => years_to_goal = PyInt(texts.years).v
    /\ PyFloat(texts.rate).t # "raise" => rate_inv_return = PyFloat(texts.rate)

\* C4: the goal projection never aborts: every unparseable field falls back
\* to its own default independently of the others, and for every combination
\* of texts the calculation produces a result without raising.
C4_NeverAborts ==
    fn = "goal" =>
        /\ pc # "raised"
        /\ pc # "call" => FieldsFallBack

\* C8 (as stated): future_goal_value is goal * (1 + inflation/100) ^ years
\* rounded to 2 decimals; the default inputs give about 10,986,327.56 and a
\* positive contribution.
C8_DefaultsGive10986327 ==
    Projected =>
        /\ future_goal_value = ExactFutureValue
        /\ IsDefaultInput =>
              /\ FCmp(FAbs(FSub(future_goal_value, Decimal2(1098632756))), One) <= 0
              /\ FCmp(annual_sip, PlusZero) > 0

\* C8 (amended): future_goal_value is goal * (1 + inflation/100) ^ years
\* rounded to 2 decimals; the default inputs give 11,027,935.17 and a
\* positive contribution.
C8_DefaultsGive11027935 ==
    Projected =>
        /\ future_goal_value = ExactFutureValue
        /\ IsDefaultInput =>
              /\ future_goal_value = Decimal2(1102793517)
              /\ FCmp(annual_sip, PlusZero) > 0

C8_Witness ==
    /\ Projected
    /\ IsDefaultInput
    /\ future_goal_value = Decimal2(1102793517)
    /\ FCmp(annual_sip, PlusZero) > 0

====
